---- MODULE Spec2Model ----
(***************************************************************************)
(* ProjectDocumenter MCP server (projectDocumenter/src/index.ts, kept in   *)
(* the repository as the TypeScript part of test-server.sh): the project   *)
(* snapshot pipeline.  Strings are TLA+ strings holding the very           *)
(* characters the program handles; paths are absolute path strings.        *)
(***************************************************************************)
EXTENDS Integers, Sequences, FiniteSets, TLC

(***************************************************************************)
(* Bounds of the model.                                                    *)
(***************************************************************************)
\* invocations of the tools in one behaviour
MaxRuns == 2
\* disturbances in one behaviour: failed I/O calls and files deleted by
\* other processes
MaxFaults == 1
\* calls of getModelsData in one behaviour
MaxCalls == 3
\* steps of the clock in one behaviour
MaxTicks == 2

(***************************************************************************)
(* JavaScript string primitives.                                           *)
(***************************************************************************)
\* The printable ASCII characters in code-unit order: 35..95 and 97..126
AsciiMid == "#$%&'()*+,-./0123456789:;<=>?@ABCDEFGHIJKLMNOPQRSTUVWXYZ[\\]^_"
AsciiHigh == "abcdefghijklmnopqrstuvwxyz{|}~"

\* String.prototype.charAt
CharAt(s, i) == SubSeq(s, i, i)

IndexIn(alphabet, c) == CHOOSE i \in 1..Len(alphabet) : CharAt(alphabet, i) = c

\* String.prototype.charCodeAt for the characters the model uses
CharCode(c) ==
    CASE c = "\t" -> 9
      [] c = "\n" -> 10
      [] c = "\r" -> 13
      [] c = " " -> 32
      [] c = "!" -> 33
      [] \E i \in 1..Len(AsciiMid) : CharAt(AsciiMid, i) = c -> 34 + IndexIn(AsciiMid, c)
      [] OTHER -> 96 + IndexIn(AsciiHigh, c)

\* a < b on strings: comparison by UTF-16 code units, a proper prefix first
RECURSIVE StrLess(_, _)
StrLess(a, b) ==
    IF Len(b) = 0 THEN FALSE
    ELSE IF Len(a) = 0 THEN TRUE
    ELSE IF Head(a) = Head(b) THEN StrLess(Tail(a), Tail(b))
    ELSE CharCode(Head(a)) < CharCode(Head(b))

\* String.prototype.startsWith
StartsWith(s, p) == Len(p) <= Len(s) /\ SubSeq(s, 1, Len(p)) = p

\* String.prototype.endsWith
EndsWith(s, p) == Len(p) <= Len(s) /\ SubSeq(s, Len(s) - Len(p) + 1, Len(s)) = p

\* String.prototype.includes
Includes(s, p) == \E i \in 1..(Len(s) - Len(p) + 1) : SubSeq(s, i, i + Len(p) - 1) = p

\* String.prototype.split(sep) for a one-character separator
RECURSIVE Split(_, _)
Split(s, sep) ==
    IF ~Includes(s, sep) THEN <<s>>
    ELSE CHOOSE parts \in
           {<<SubSeq(s, 1, i - 1)>> \o Split(SubSeq(s, i + 1, Len(s)), sep) :
              i \in {CHOOSE k \in 1..Len(s) :
                        /\ CharAt(s, k) = sep
                        /\ \A j \in 1..(k - 1) : CharAt(s, j) # sep}} : TRUE

IsSpace(c) == c \in {" ", "\t", "\n", "\r"}

\* String.prototype.trim
RECURSIVE Trim(_)
Trim(s) ==
    IF Len(s) = 0 THEN s
    ELSE IF IsSpace(Head(s)) THEN Trim(Tail(s))
    ELSE IF IsSpace(CharAt(s, Len(s))) THEN Trim(SubSeq(s, 1, Len(s) - 1))
    ELSE s

\* Array.prototype.join
RECURSIVE JoinSeq(_, _)
JoinSeq(seq, sep) ==
    IF seq = <<>> THEN ""
    ELSE IF Len(seq) = 1 THEN seq[1]
    ELSE seq[1] \o sep \o JoinSeq(Tail(seq), sep)

\* Array.prototype.sort() without a comparator: ascending by code units
RECURSIVE InsertSorted(_, _)
InsertSorted(sorted, x) ==
    IF sorted = <<>> THEN <<x>>
    ELSE IF StrLess(x, Head(sorted)) THEN <<x>> \o sorted
    ELSE <<Head(sorted)>> \o InsertSorted(Tail(sorted), x)

\* the array left in the order of discovery
ArrayUnsorted(seq) == seq

RECURSIVE ArraySort(_)
ArraySort(seq) ==
    IF seq = <<>> THEN <<>>
    ELSE CHOOSE array \in {InsertSorted(sorted, seq[Len(seq)]) :
                            sorted \in {ArraySort(SubSeq(seq, 1, Len(seq) - 1))}} : TRUE

(***************************************************************************)
(* Node's path module (POSIX).                                             *)
(***************************************************************************)
\* normalizeString: resolve "." and ".." and drop empty segments
RECURSIVE NormalizeSegs(_, _)
NormalizeSegs(segs, acc) ==
    IF segs = <<>> THEN acc
    ELSE LET s == Head(segs) IN
         IF s = "" \/ s = "." THEN NormalizeSegs(Tail(segs), acc)
         ELSE IF s = ".."
              THEN NormalizeSegs(Tail(segs),
                                 IF acc = <<>> THEN acc ELSE SubSeq(acc, 1, Len(acc) - 1))
              ELSE NormalizeSegs(Tail(segs), Append(acc, s))

\* path.normalize of an absolute path: a trailing separator is kept
PathNormalize(p) ==
    CHOOSE normalized \in
      {IF body = "" THEN "/" ELSE "/" \o body \o (IF EndsWith(p, "/") THEN "/" ELSE "") :
         body \in {JoinSeq(kept, "/") :
                     kept \in {NormalizeSegs(segs, <<>>) : segs \in {Split(p, "/")}}}} : TRUE

\* path.join(a, b): zero-length arguments are ignored, the rest joined and normalized
PathJoin(a, b) == PathNormalize(IF b = "" THEN a ELSE a \o "/" \o b)

\* path.relative(from, to) for a path `to` beneath the directory `from`
PathRelative(from, to) ==
    IF StartsWith(to, from \o "/") THEN SubSeq(to, Len(from) + 2, Len(to)) ELSE to

\* path.basename
Basename(p) == CHOOSE base \in {segs[Len(segs)] : segs \in {Split(p, "/")}} : TRUE

\* path.dirname of an absolute path
Dirname(p) ==
    CHOOSE dir \in
      {IF d = "" THEN "/" ELSE d :
         d \in {JoinSeq(SubSeq(segs, 1, Len(segs) - 1), "/") : segs \in {Split(p, "/")}}} : TRUE

\* path.extname: from the last "." of the basename; "" when there is none or
\* when the only "." is the basename's first character
PathExtname(p) ==
    CHOOSE ext \in
      {LET dots == {i \in 1..Len(b) : CharAt(b, i) = "."}
       IN  IF dots = {} THEN ""
           ELSE LET i == CHOOSE k \in dots : \A j \in dots : j <= k
                IN  IF i = 1 THEN "" ELSE SubSeq(b, i, Len(b)) :
         b \in {Basename(p)}} : TRUE

(***************************************************************************)
(* The file system the server works on.                                    *)
(*   dirs       the existing directories (absolute paths)                  *)
(*   files      the existing files, each with its text                     *)
(*   untracked  the paths git holds to be ignored and untracked            *)
(***************************************************************************)
VARIABLES dirs, files, untracked

\* the projectPath argument of the tools and of the resource
ProjectPath == "/proj"

GitignorePath == PathJoin(ProjectPath, ".gitignore")
ProjectMdPath == PathJoin(ProjectPath, "project.md")
GitDirPath == PathJoin(ProjectPath, ".git")
NodeModulesPath == PathJoin(ProjectPath, "node_modules")
ReadmePath == PathJoin(ProjectPath, "README.md")

StripSlash(p) == IF Len(p) > 1 /\ EndsWith(p, "/") THEN SubSeq(p, 1, Len(p) - 1) ELSE p

\* fs.stat(p) with every existing entry taken for a directory
StatKindOfEntry(d, f, p) ==
    LET q == StripSlash(p) IN
    IF q = "/" \/ q \in d \/ q \in DOMAIN f THEN "dir" ELSE "error"

\* fs.stat(p): "dir", "file", or "error" when the call throws
StatKind(d, f, p) ==
    CHOOSE kind \in
      {IF q = "/" \/ q \in d THEN "dir"
       ELSE IF q \in DOMAIN f /\ q = p THEN "file"
       ELSE "error" : q \in {StripSlash(p)}} : TRUE

\* fs.access(p) resolves
Exists(d, f, p) == StatKind(d, f, p) # "error"

\* the entries fs.readdir(dir) returns, as full paths
Children(d, f, dir) == {p \in d \cup DOMAIN f : p # dir /\ Dirname(p) = dir}

\* a write that first copies the text it replaces to a file beside p
WriteFileWithBackup(f, p, text) ==
    LET backup == IF p \in DOMAIN f THEN {p \o ".bak"} ELSE {} IN
    [q \in DOMAIN f \cup {p} \cup backup |->
        IF q = p THEN text ELSE IF q \in backup THEN f[p] ELSE f[q]]

\* fs.writeFile(p, text)
WriteFile(f, p, text) == [q \in DOMAIN f \cup {p} |-> IF q = p THEN text ELSE f[q]]

\* how a call of fs.writeFile may end: done; refused when the file is opened,
\* the file left as it was; or failed while the text is written, after the
\* open has emptied the file
WriteErrors == {"EACCES", "ENOSPC"}

WriteOutcomes == {"done"} \cup WriteErrors

\* the files after fs.writeFile(p, text) has ended with the outcome
WriteResult(f, p, text, outcome) ==
    IF outcome = "done" THEN WriteFile(f, p, text)
    ELSE IF outcome = "ENOSPC" THEN WriteFile(f, p, "")
    ELSE f

\* error.message of a failed fs.writeFile(p): a failure of the open names
\* the path, a failure of the write does not
WriteError(p, outcome) ==
    IF outcome = "ENOSPC" THEN "ENOSPC: no space left on device, write"
    ELSE "EACCES: permission denied, open '" \o p \o "'"

\* the error text of a failed fs call
FsError(d, f, call, p, fault) ==
    (IF fault THEN "EACCES: permission denied, "
     ELSE IF StripSlash(p) \in d THEN "EISDIR: illegal operation on a directory, "
     ELSE "ENOENT: no such file or directory, ")
    \o call \o " '" \o p \o "'"

(***************************************************************************)
(* File Classifier.                                                        *)
(***************************************************************************)
codeExtensions ==
    { ".html", ".css", ".js", ".jsx", ".ts", ".tsx", ".vue", ".svelte",
      ".py", ".java", ".rb", ".php", ".go", ".rs", ".c", ".cpp", ".cs", ".h", ".hpp",
      ".json", ".yml", ".yaml", ".toml", ".ini", ".xml", ".env",
      ".md", ".sh", ".bat", ".ps1", ".sql", ".graphql" }

\* the classifier taking every file for a code file
isCodeFileAny(filename) == TRUE

\* isCodeFile(filename): the extension, as it is spelled, is in the list
isCodeFile(filename) == PathExtname(filename) \in codeExtensions

languageMap ==
    << <<".js", "javascript">>, <<".jsx", "jsx">>, <<".ts", "typescript">>,
       <<".tsx", "tsx">>, <<".html", "html">>, <<".css", "css">>, <<".py", "python">>,
       <<".java", "java">>, <<".rb", "ruby">>, <<".php", "php">>, <<".go", "go">>,
       <<".rs", "rust">>, <<".c", "c">>, <<".cpp", "cpp">>, <<".cs", "csharp">>,
       <<".json", "json">>, <<".yml", "yaml">>, <<".yaml", "yaml">>,
       <<".md", "markdown">>, <<".sh", "bash">>, <<".bat", "batch">>,
       <<".ps1", "powershell">>, <<".sql", "sql">>, <<".vue", "vue">>,
       <<".svelte", "svelte">>, <<".graphql", "graphql">>, <<".xml", "xml">>,
       <<".toml", "toml">> >>

\* the extensions of the model's files are lower case already (toLowerCase)
getLanguageFromExtension(filename) ==
    CHOOSE language \in
      {LET hits == {i \in 1..Len(languageMap) : languageMap[i][1] = ext}
       IN  IF hits = {} THEN "" ELSE languageMap[CHOOSE i \in hits : TRUE][2] :
         ext \in {PathExtname(filename)}} : TRUE

(***************************************************************************)
(* Exclusion Resolver.                                                     *)
(***************************************************************************)
\* the literal entries kept from the .gitignore text
IgnoredDirs(gitignoreContent) ==
    CHOOSE ignoredDirs \in
      {SelectSeq([i \in 1..Len(lines) |-> Trim(lines[i])],
                 LAMBDA pattern : ~Includes(pattern, "*") /\ ~StartsWith(pattern, "!")) :
         lines \in {SelectSeq(Split(gitignoreContent, "\n"),
                              LAMBDA line : line # "" /\ ~StartsWith(line, "#"))}} : TRUE

DefaultIgnored(projectPath) == {PathJoin(projectPath, ".git"), PathJoin(projectPath, "node_modules")}

\* the paths `git ls-files --ignored --exclude-standard --others` printed
GitListed(projectPath, stdout) ==
    UNION {{PathJoin(projectPath, names[i]) : i \in 1..Len(names)} :
             names \in {SelectSeq(Split(stdout, "\n"), LAMBDA file : file # "")}}

\* the .gitignore entries that are existing directories
GitignoreDirs(d, f, projectPath, gitignoreContent) ==
    UNION {{fullPath \in {PathJoin(projectPath, ignoredDirs[i]) : i \in 1..Len(ignoredDirs)} :
              StatKind(d, f, fullPath) = "dir"} :
             ignoredDirs \in {IgnoredDirs(gitignoreContent)}}

\* getGitIgnoredPaths with nothing added when the git command fails
getGitIgnoredPathsBare(d, f, projectPath, git, readOk) ==
    IF ~Exists(d, f, PathJoin(projectPath, ".git")) \/ ~git.ok THEN {}
    ELSE GitListed(projectPath, git.stdout)
         \cup (IF readOk
               THEN GitignoreDirs(d, f, projectPath, f[PathJoin(projectPath, ".gitignore")])
               ELSE {})
         \cup DefaultIgnored(projectPath)

\* getGitIgnoredPaths(projectPath); git is the outcome of the git command
\* ([ok, stdout]), readOk whether the read of .gitignore succeeded
getGitIgnoredPaths(d, f, projectPath, git, readOk) ==
    IF ~Exists(d, f, PathJoin(projectPath, ".git")) THEN {}
    ELSE IF ~git.ok THEN DefaultIgnored(projectPath)
    ELSE GitListed(projectPath, git.stdout)
         \cup (IF readOk
               THEN GitignoreDirs(d, f, projectPath, f[PathJoin(projectPath, ".gitignore")])
               ELSE {})
         \cup DefaultIgnored(projectPath)

(***************************************************************************)
(* Tree Walker.                                                            *)
(***************************************************************************)
RECURSIVE SortSet(_)
SortSet(S) ==
    IF S = {} THEN <<>>
    ELSE CHOOSE seq \in {<<m>> \o SortSet(S \ {m}) :
                          m \in {CHOOSE x \in S : \A y \in S \ {x} : StrLess(x, y)}} : TRUE

Reverse(seq) == [i \in 1..Len(seq) |-> seq[Len(seq) + 1 - i]]

\* the order in which fs.readdir lists a directory: the storage's own order,
\* here ascending or descending by name
Listing(d, f, dir, rev) ==
    LET asc == SortSet(Children(d, f, dir)) IN IF rev THEN Reverse(asc) ELSE asc

\* collectCodeFiles({dirPath, ignoredPaths, files: acc}); bad holds the
\* directories whose listing throws.  The names entries and collected are bound
\* to values, as the constants of the code are: a listing is taken once.
RECURSIVE collectCodeFiles(_, _, _, _, _, _, _)
RECURSIVE VisitEntries(_, _, _, _, _, _, _)
\* the walk with a failed listing losing the files collected before it
collectCodeFilesLosing(d, f, dirPath, ignored, acc, rev, bad) ==
    IF dirPath \in ignored THEN acc
    ELSE IF dirPath \in bad THEN <<>>
    ELSE IF dirPath \notin d THEN acc
    ELSE CHOOSE found \in {VisitEntries(d, f, entries, ignored, acc, rev, bad) :
                            entries \in {Listing(d, f, dirPath, rev)}} : TRUE

collectCodeFiles(d, f, dirPath, ignored, acc, rev, bad) ==
    IF dirPath \in ignored THEN acc
    ELSE IF dirPath \in bad \/ dirPath \notin d THEN acc
    ELSE CHOOSE found \in {VisitEntries(d, f, entries, ignored, acc, rev, bad) :
                            entries \in {Listing(d, f, dirPath, rev)}} : TRUE

VisitEntries(d, f, entries, ignored, acc, rev, bad) ==
    IF entries = <<>> THEN acc
    ELSE LET fullPath == Head(entries) IN
         CHOOSE found \in
           {VisitEntries(d, f, Tail(entries), ignored, collected, rev, bad) :
              collected \in {IF fullPath \in ignored THEN acc
                         ELSE IF fullPath \in d
                              THEN collectCodeFiles(d, f, fullPath, ignored, acc, rev, bad)
                         ELSE IF isCodeFile(Basename(fullPath)) THEN Append(acc, fullPath)
                         ELSE acc}} : TRUE

(***************************************************************************)
(* Snapshot Assembler.                                                     *)
(***************************************************************************)
\* a code fence; the program writes three backquotes, which a TLA+ string
\* cannot hold
Fence == "~~~"

DocumentTitle == "# Project Code Summary\n\n"

\* the FileContentResult of one file; error "" stands for an absent field
FileContent(projectPath, file, ok, text) ==
    LET relativePath == PathRelative(projectPath, file) IN
    IF ok
    THEN [relativePath |-> relativePath,
          content |-> "## " \o relativePath \o "\n\n" \o Fence
                      \o getLanguageFromExtension(file) \o "\n" \o text \o "\n"
                      \o Fence \o "\n\n",
          error |-> ""]
    ELSE [relativePath |-> relativePath,
          content |-> "## " \o relativePath \o "\n\n*Error reading file: " \o text \o "*\n\n",
          error |-> text]

\* a read that has not resolved yet
Unresolved == [relativePath |-> "", content |-> "", error |-> "unresolved"]

RECURSIVE ConcatContents(_)
ConcatContents(fileContents) ==
    IF fileContents = <<>> THEN ""
    ELSE Head(fileContents).content \o ConcatContents(Tail(fileContents))

\* the document without the sections of the reads that failed
generateProjectMdOfRead(fileContents) ==
    DocumentTitle
    \o ConcatContents(SelectSeq(fileContents, LAMBDA fileContent : fileContent.error = ""))

\* the text generateProjectMd returns once every read has resolved
generateProjectMd(fileContents) == DocumentTitle \o ConcatContents(fileContents)

(***************************************************************************)
(* Snapshot Writer: the .gitignore update.                                 *)
(***************************************************************************)
\* whether the .gitignore text is taken to list project.md already
HasEntry(gitignoreContent) == Includes(gitignoreContent, "project.md")

\* the text written when it does not
WithEntry(gitignoreContent) ==
    gitignoreContent \o (IF EndsWith(gitignoreContent, "\n") THEN "project.md\n" ELSE "\nproject.md\n")

(***************************************************************************)
(* The server's state.                                                     *)
(*   pc             where the tool handler in progress stands              *)
(*   tool           the tool invoked                                       *)
(*   ignoredPaths   the Set getGitIgnoredPaths returned, plus project.md   *)
(*   codeFiles      the array collectCodeFiles returned, sorted in place   *)
(*   fileContents   the results of the reads of Promise.all                *)
(*   pending        the indices of the reads not yet resolved              *)
(*   result         what the tool handler returned                         *)
(*   resourceText   the text the project-md resource returned last         *)
(* and, for the statement of the properties,                               *)
(*   runs           the number of invocations so far                       *)
(*   invoked        the tools invoked so far, in order                     *)
(*   faults         the disturbances so far: the I/O calls that failed and *)
(*                  the files other processes deleted                      *)
(*   files0         the files when the handler in progress was invoked     *)
(*   stages         the stages the handler in progress went through        *)
(*   gitQueried     whether it ran the git command                         *)
(*   walked         codeFiles in the order of discovery                    *)
(*   outOfOrder     whether a read has resolved before the read of a file  *)
(*                  earlier in codeFiles                                   *)
(***************************************************************************)
VARIABLES pc, tool, ignoredPaths, codeFiles, fileContents, pending,
          result, resourceText, runs, invoked, faults, files0, stages, gitQueried,
          walked, outOfOrder

(***************************************************************************)
(* The state of the gh-models-comparison server (api/github-models.ts): a  *)
(* server of its own, which shares nothing with the project documenter.    *)
(*   now                   the clock Date.now() reads, in milliseconds     *)
(*                         from the start of the behaviour                 *)
(*   modelsCache           the cached model list, or null                  *)
(*   modelsCacheTimestamp  the time of the cache, in thousandths of a      *)
(*                         second                                          *)
(*   calls                 the calls of getModelsData: where each stands,  *)
(*                         its currentTime, what it returned, and, for the *)
(*                         statement of the properties,                    *)
(*                         whether it sent a catalog request and how the   *)
(*                         request ended                                   *)
(* and, for the statement of the properties,                               *)
(*   ticks                 the number of steps of the clock so far         *)
(*   populator             the call that assigned modelsCache last, 0 when *)
(*                         none has                                        *)
(* and of the tool compare_models                                          *)
(*   comparison            the handler in progress: where it stands, its   *)
(*                         modelList, availableModelIds, validModels, idx  *)
(*                         and results, and, for the statement of the      *)
(*                         properties, the models it has called the        *)
(*                         completions API for                             *)
(***************************************************************************)
VARIABLES now, modelsCache, modelsCacheTimestamp, calls, ticks, populator, comparison

modelVars ==
    <<now, modelsCache, modelsCacheTimestamp, calls, ticks, populator, comparison>>

\* the calls of getModelsData, numbered as they arrive
Calls == 1..MaxCalls

\* modelsCache = null
Null == [null |-> TRUE, value |-> <<>>]

\* modelsCache = models
Cached(models) == [null |-> FALSE, value |-> models]

\* a call that has not arrived yet
NotCalled ==
    [pc |-> "idle", currentTime |-> 0, requested |-> FALSE, answer |-> "none",
     returned |-> <<>>]

\* what the tools answer with: the fields of the JSON text
NoReply == [error |-> "", available_models |-> <<>>, results |-> <<>>, models_compared |-> <<>>]

\* compare_models not invoked
NotComparing ==
    [pc |-> "idle", call |-> 0, token |-> FALSE, modelList |-> <<>>,
     availableModelIds |-> <<>>, validModels |-> <<>>, idx |-> 0, results |-> <<>>,
     called |-> <<>>, reply |-> NoReply]

\* the module as loaded: "let modelsCache = null; let modelsCacheTimestamp = 0"
ModelsLoaded ==
    /\ now = 0
    /\ modelsCache = Null
    /\ modelsCacheTimestamp = 0
    /\ calls = [c \in Calls |-> NotCalled]
    /\ ticks = 0
    /\ populator = 0
    /\ comparison = NotComparing

documenterVars ==
    <<dirs, files, untracked, pc, tool, ignoredPaths, codeFiles, fileContents,
      pending, result, resourceText, runs, invoked, faults, files0, stages,
      gitQueried, walked, outOfOrder>>

vars == <<documenterVars, modelVars>>

NoResult == [isError |-> FALSE, text |-> ""]

Tools == {"generate-project-md", "document-project"}

\* the disturbance named label, when it happens
Fault(happens, label) == IF happens THEN {label} ELSE {}

\* the disturbances so far and the new ones stay within the bound
Admit(new) == Cardinality(faults \cup new) <= MaxFaults

(***************************************************************************)
(* The project trees the runs start from.                                  *)
(***************************************************************************)
\* the sample project of test-server.sh, without its .gitignore
SampleProject ==
    [dirs |-> {ProjectPath, "/proj/src", "/proj/config"},
     files |-> ("/proj/src/index.js" :> "app.listen(port);\n")
               @@ ("/proj/config/config.json" :> "{}\n")
               @@ ("/proj/README.md" :> "# Sample Project\n")]

\* a project with installed dependencies, an image and a script whose
\* extension is in upper case
VendoredProject ==
    [dirs |-> {ProjectPath, "/proj/src", NodeModulesPath, "/proj/node_modules/dep"},
     files |-> ("/proj/src/app.ts" :> "main();\n")
               @@ ("/proj/src/logo.png" :> "PNG")
               @@ ("/proj/src/Legacy.JS" :> "old();\n")
               @@ ("/proj/node_modules/dep/index.js" :> "exports = 1;\n")]

\* a project with no eligible file
AssetsProject ==
    [dirs |-> {ProjectPath},
     files |-> ("/proj/logo.png" :> "PNG") @@ ("/proj/.env" :> "KEY=1\n")]

\* a project with a file named project.md in a subdirectory, and a build directory
DocsProject ==
    [dirs |-> {ProjectPath, "/proj/docs", "/proj/dist"},
     files |-> ("/proj/docs/project.md" :> "# Plan\n")
               @@ ("/proj/dist/out.js" :> "x;\n")
               @@ ("/proj/main.py" :> "pass\n")]

\* the version-control metadata of a project under git
GitMetadata ==
    [dirs |-> {GitDirPath, "/proj/.git/hooks"},
     files |-> ("/proj/.git/hooks/pre-commit.sh" :> "exit 0\n")]

\* the .gitignore of the sample project of test-server.sh
SampleGitignore == "node_modules/\n.env\n"

\* a project as it is, not under git, with the given .gitignore text
Plain(project, gitignore) ==
    [dirs |-> project.dirs,
     files |-> (GitignorePath :> gitignore) @@ project.files,
     untracked |-> {}]

\* a project without a .gitignore
Bare(project) == [dirs |-> project.dirs, files |-> project.files, untracked |-> {}]

\* a project under git; ignored are the paths its ignore rules match and git
\* does not track
UnderGit(tree, ignored) ==
    [dirs |-> tree.dirs \cup GitMetadata.dirs,
     files |-> GitMetadata.files @@ tree.files,
     untracked |-> ignored]

\* the project trees the behaviours start from
Scenarios ==
    { Plain(SampleProject, SampleGitignore),
      UnderGit(Plain(SampleProject, SampleGitignore), {ProjectMdPath}),
      UnderGit(Bare(SampleProject), {ProjectMdPath}),
      Bare(VendoredProject),
      UnderGit(Plain(VendoredProject, SampleGitignore),
               {"/proj/node_modules/dep/index.js", ProjectMdPath}),
      Bare(AssetsProject),
      Plain(DocsProject, "project.md\n"),
      Plain(DocsProject, "dist"),
      UnderGit(Plain(DocsProject, "docs/project.md\n"), {"/proj/docs/project.md"}),
      UnderGit(Plain(DocsProject, "# build\n*.log\n!keep\ndist\n"),
               {"/proj/dist/out.js", ProjectMdPath}),
      UnderGit(Plain(DocsProject, "dist/\r\n\r\n"), {"/proj/dist/out.js", ProjectMdPath}),
      \* projectPath names a file
      [dirs |-> {}, files |-> (ProjectPath :> "text"), untracked |-> {}],
      \* projectPath names nothing
      [dirs |-> {}, files |-> <<>>, untracked |-> {}] }

\* the server as constructed, beside one of the given project trees
Started(projects) ==
    /\ \E scenario \in projects :
         /\ dirs = scenario.dirs
         /\ files = scenario.files
         /\ untracked = scenario.untracked
    /\ pc = "idle"
    /\ tool = "generate-project-md"
    /\ ignoredPaths = {}
    /\ codeFiles = <<>>
    /\ fileContents = <<>>
    /\ pending = {}
    /\ result = NoResult
    /\ resourceText = ""
    /\ runs = 0
    /\ invoked = <<>>
    /\ faults = {}
    /\ files0 = files
    /\ stages = <<>>
    /\ gitQueried = FALSE
    /\ walked = <<>>
    /\ outOfOrder = FALSE
    /\ ModelsLoaded

Init == Started(Scenarios)

(***************************************************************************)
(* The tools generate-project-md and document-project.  Each action is the *)
(* handler's code from one await to the next.                              *)
(***************************************************************************)
\* the handler is invoked and validates the project path (fs.stat); a
\* behaviour is followed up to the end of its first disturbed invocation
Validate(t) ==
    /\ pc \in {"idle", "done"}
    /\ runs < MaxRuns
    /\ faults = {}
    /\ runs' = runs + 1
    /\ invoked' = Append(invoked, t)
    /\ tool' = t
    /\ files0' = files
    /\ stages' = <<"validate">>
    /\ ignoredPaths' = {}
    /\ codeFiles' = <<>>
    /\ fileContents' = <<>>
    /\ pending' = {}
    /\ gitQueried' = FALSE
    /\ walked' = <<>>
    /\ outOfOrder' = FALSE
    /\ resourceText' = ""
    /\ LET kind == StatKind(dirs, files, ProjectPath) IN
       IF kind = "dir"
       THEN /\ pc' = "gitignore"
            /\ result' = NoResult
       ELSE /\ pc' = "done"
            /\ result' =
                 [isError |-> TRUE,
                  text |-> IF kind = "file"
                           THEN "Error: The provided path is not a directory: " \o ProjectPath
                           ELSE "Error: Cannot access directory: " \o ProjectPath \o "\nError: "
                                \o FsError(dirs, files, "stat", ProjectPath, FALSE)]
    /\ UNCHANGED <<dirs, untracked, files, faults>>
    /\ UNCHANGED modelVars

\* where the handler stands after the update with its failure thrown on to
\* the outer catch
AfterUpdateRethrown(failed) == IF failed THEN "done" ELSE "resolve"

\* where the handler stands after the .gitignore update: its catch logs the
\* error, and the handler goes on to getGitIgnoredPaths
AfterUpdate(failed) == "resolve"

\* "Add project.md to .gitignore if it's not already there"; both the read
\* and the write may fail, and a failure of the write is only logged
UpdateGitignore ==
    /\ pc = "gitignore"
    /\ \E readFault \in (IF GitignorePath \in DOMAIN files THEN BOOLEAN ELSE {FALSE}) :
         LET readOk == GitignorePath \in DOMAIN files /\ ~readFault
             gitignoreContent == IF readOk THEN files[GitignorePath] ELSE ""
         IN  \E outcome \in (IF HasEntry(gitignoreContent) THEN {"done"} ELSE WriteOutcomes) :
             LET disturbed == Fault(readFault, "read .gitignore")
                              \cup Fault(outcome # "done", "write .gitignore " \o outcome)
             IN  /\ Admit(disturbed)
                 /\ faults' = faults \cup disturbed
                 /\ files' = IF HasEntry(gitignoreContent) THEN files
                             ELSE WriteResult(files, GitignorePath,
                                              WithEntry(gitignoreContent), outcome)
                 /\ pc' = AfterUpdate(outcome # "done")
    /\ stages' = Append(stages, "gitignore")
    /\ UNCHANGED <<dirs, untracked, tool, ignoredPaths, codeFiles, fileContents,
                   pending, result, resourceText, runs, invoked, files0, gitQueried, walked, outOfOrder>>
    /\ UNCHANGED modelVars

\* the files git reports as ignored and untracked
GitCandidates == untracked \cap DOMAIN files

\* the output of the git command for the set of files it reports
GitStdout(listed) ==
    CHOOSE stdout \in
      {JoinSeq(lines, "") :
         lines \in {[i \in 1..Len(sorted) |-> PathRelative(ProjectPath, sorted[i]) \o "\n"] :
                      sorted \in {SortSet(listed)}}} : TRUE

\* the ignored paths without project.md
ScanIgnoredAsResolved(resolved, projectMdPath) == resolved

\* "Add project.md to ignored paths to prevent it from being included in the scan"
ScanIgnored(resolved, projectMdPath) == resolved \cup {projectMdPath}

\* getGitIgnoredPaths and the addition of project.md
ResolveExclusions ==
    /\ pc = "resolve"
    /\ LET isGit == Exists(dirs, files, GitDirPath) IN
       \E gitFault \in (IF isGit THEN BOOLEAN ELSE {FALSE}) :
       \E readFault \in (IF isGit /\ ~gitFault /\ GitignorePath \in DOMAIN files
                         THEN BOOLEAN ELSE {FALSE}) :
         /\ Admit(Fault(gitFault, "git ls-files") \cup Fault(readFault, "parse .gitignore"))
         /\ faults' = faults \cup Fault(gitFault, "git ls-files")
                              \cup Fault(readFault, "parse .gitignore")
         /\ gitQueried' = isGit
         /\ ignoredPaths' =
              ScanIgnored(getGitIgnoredPaths(dirs, files, ProjectPath,
                                             [ok |-> ~gitFault,
                                              stdout |-> GitStdout(GitCandidates)],
                                             GitignorePath \in DOMAIN files /\ ~readFault),
                          ProjectMdPath)
    /\ pc' = "walk"
    /\ stages' = Append(stages, "resolve")
    /\ UNCHANGED <<dirs, untracked, files, tool, codeFiles, fileContents, pending,
                   result, resourceText, runs, invoked, files0, walked, outOfOrder>>
    /\ UNCHANGED modelVars

\* the check for an empty list left out
FoundNoneUnchecked(found) == FALSE

\* "Check if we found any code files"
FoundNone(found) == Len(found) = 0

\* collectCodeFiles, the check for an empty list, and the start of
\* generateProjectMd: the sort and the issue of one read per file
CollectAndSort ==
    /\ pc = "walk"
    /\ \E rev \in BOOLEAN, bad \in {{}} \cup {{dir} : dir \in dirs} :
         \E found \in {collectCodeFiles(dirs, files, ProjectPath, ignoredPaths, <<>>, rev, bad)} :
         /\ Admit({"readdir " \o dir : dir \in bad})
         /\ faults' = faults \cup {"readdir " \o dir : dir \in bad}
         /\ walked' = found
         /\ IF FoundNone(found)
            THEN /\ pc' = "done"
                 /\ result' = [isError |-> TRUE,
                               text |-> "No code files found in " \o ProjectPath
                                        \o ". Please check the path and try again."]
                 /\ stages' = Append(stages, "walk")
                 /\ UNCHANGED <<codeFiles, fileContents, pending>>
            ELSE /\ pc' = "reading"
                 /\ codeFiles' = ArraySort(found)
                 /\ fileContents' = [i \in 1..Len(found) |-> Unresolved]
                 /\ pending' = 1..Len(found)
                 /\ stages' = stages \o <<"walk", "assemble">>
                 /\ UNCHANGED result
    /\ UNCHANGED <<dirs, untracked, files, tool, ignoredPaths, resourceText, runs, invoked,
                   files0, gitQueried, outOfOrder>>
    /\ UNCHANGED modelVars

\* the results kept in the order in which the reads resolve
SettleInCompletionOrder(contents, i, fileContent) ==
    LET first == CHOOSE k \in 1..Len(contents) :
                    /\ contents[k] = Unresolved
                    /\ \A j \in 1..(k - 1) : contents[j] # Unresolved
    IN  [contents EXCEPT ![first] = fileContent]

\* Promise.all keeps the result of the i-th promise at index i
Settle(contents, i, fileContent) == [contents EXCEPT ![i] = fileContent]

\* the reads pending with the i-th never settled
StillPending(reads, i) == reads

\* the reads pending once the i-th has settled
Settled(reads, i) == reads \ {i}

\* one of the reads of Promise.all resolves, with the text or with an error
ReadFile(i) ==
    /\ pc = "reading"
    /\ i \in pending
    /\ LET file == codeFiles[i] IN
       \E fault \in (IF file \in DOMAIN files THEN BOOLEAN ELSE {FALSE}) :
         /\ Admit(Fault(fault, "read " \o file))
         /\ faults' = faults \cup Fault(fault, "read " \o file)
         /\ fileContents' =
              Settle(fileContents, i,
                     IF file \in DOMAIN files /\ ~fault
                     THEN FileContent(ProjectPath, file, TRUE, files[file])
                     ELSE FileContent(ProjectPath, file, FALSE,
                                      FsError(dirs, files, "open", file, fault)))
    /\ pending' = Settled(pending, i)
    /\ outOfOrder' = (outOfOrder \/ \E j \in pending : j < i)
    /\ UNCHANGED <<dirs, untracked, files, pc, tool, ignoredPaths, codeFiles, result,
                   resourceText, runs, invoked, files0, stages, gitQueried, walked>>
    /\ UNCHANGED modelVars

\* the success message counting only the files that were read
SuccessTextOfRead ==
    "Successfully created/updated project.md at " \o ProjectMdPath \o " with "
    \o ToString(Cardinality({i \in 1..Len(fileContents) : fileContents[i].error = ""}))
    \o " files."

SuccessText ==
    "Successfully created/updated project.md at " \o ProjectMdPath \o " with "
    \o ToString(Len(codeFiles)) \o " files."

\* the message of the outer catch without the error caught
CatchTextBare(t, message) ==
    IF t = "generate-project-md" THEN "Error generating project.md"
    ELSE "Error documenting project"

\* the message of the outer catch of the tool t
CatchText(t, message) ==
    (IF t = "generate-project-md" THEN "Error generating project.md: "
     ELSE "Error documenting project: ") \o message

\* where the handler stands after a failed write, were the write tried again
AfterFailedWriteRetried == "reading"

\* where the handler stands after a failed write of project.md: the outer
\* catch returns the error
AfterFailedWrite == "done"

\* every read has resolved: the document is put together and written to
\* project.md; generate-project-md then returns
WriteArtifact ==
    /\ pc = "reading"
    /\ pending = {}
    /\ \E outcome \in WriteOutcomes :
         /\ Admit(Fault(outcome # "done", "write project.md " \o outcome))
         /\ faults' = faults \cup Fault(outcome # "done", "write project.md " \o outcome)
         /\ files' = WriteResult(files, ProjectMdPath, generateProjectMd(fileContents), outcome)
         /\ IF outcome # "done"
            THEN /\ pc' = AfterFailedWrite
                 /\ result' = [isError |-> TRUE,
                               text |-> CatchText(tool, WriteError(ProjectMdPath, outcome))]
            ELSE IF tool = "generate-project-md"
                 THEN /\ pc' = "done"
                      /\ result' = [isError |-> FALSE, text |-> SuccessText]
                 ELSE /\ pc' = "readme"
                      /\ UNCHANGED result
    /\ stages' = Append(stages, "write")
    /\ UNCHANGED <<dirs, untracked, tool, ignoredPaths, codeFiles, fileContents,
                   pending, resourceText, runs, invoked, files0, gitQueried, walked, outOfOrder>>
    /\ UNCHANGED modelVars

ReadmePlaceholder ==
    "# Project Documentation\n\n*This README will be updated with comprehensive documentation based on the project.md file.*"

\* document-project, step 2: the existing README.md or a placeholder
PrepareReadme ==
    /\ pc = "readme"
    /\ \E updateExisting \in BOOLEAN :
       LET found == ReadmePath \in DOMAIN files
           existingReadme == IF found THEN files[ReadmePath] ELSE ""
       IN  IF found /\ ~updateExisting
           THEN /\ result' = [isError |-> FALSE,
                              text |-> "README.md already exists at " \o ReadmePath
                                       \o " and updateExisting is set to false."]
                /\ UNCHANGED files
           ELSE /\ files' = IF existingReadme = ""
                            THEN WriteFile(files, ReadmePath, ReadmePlaceholder)
                            ELSE files
                /\ result' = [isError |-> FALSE,
                              text |-> "Project documentation preparation complete:\n1. Created/updated project.md at "
                                       \o ProjectMdPath \o "\n2. "
                                       \o (IF existingReadme # ""
                                           THEN "Existing README.md is ready for updating"
                                           ELSE "Created placeholder README.md")
                                       \o " at " \o ReadmePath]
    /\ pc' = "done"
    /\ stages' = Append(stages, "readme")
    /\ UNCHANGED <<dirs, untracked, tool, ignoredPaths, codeFiles, fileContents,
                   pending, resourceText, runs, invoked, faults, files0, gitQueried, walked, outOfOrder>>
    /\ UNCHANGED modelVars

(***************************************************************************)
(* The project-md resource.                                                *)
(***************************************************************************)
\* the escape sequences decodeURIComponent meets in the model's requests
Escapes == << <<"2F", "/">>, <<"20", " ">>, <<"25", "%">> >>

EscapeAt(s, i) ==
    IF i + 2 > Len(s) THEN {}
    ELSE {k \in 1..Len(Escapes) : Escapes[k][1] = SubSeq(s, i + 1, i + 2)}

\* decodeURIComponent(s) throws URIError
Malformed(s) == \E i \in 1..Len(s) : CharAt(s, i) = "%" /\ EscapeAt(s, i) = {}

\* decodeURIComponent(s) for a well-formed s
RECURSIVE DecodeURIComponent(_)
DecodeURIComponent(s) ==
    IF s = "" THEN ""
    ELSE IF Head(s) = "%"
         THEN Escapes[CHOOSE k \in EscapeAt(s, 1) : TRUE][2]
              \o DecodeURIComponent(SubSeq(s, 4, Len(s)))
         ELSE Head(s) \o DecodeURIComponent(Tail(s))

\* the {projectPath} parts of the resource URIs requested
ResourceRequests == {"%2Fproj", "%2Fproj%"}

NotFoundText(projectMdPath) == "No project.md found at " \o projectMdPath

MalformedText == "Error accessing project.md: URI malformed"

\* the resource handler with a failed read reported as an error
ResourceTextOrError(f, projectPath, fault) ==
    IF Malformed(projectPath) THEN MalformedText
    ELSE LET projectMdPath == PathJoin(DecodeURIComponent(projectPath), "project.md") IN
         IF projectMdPath \in DOMAIN f /\ ~fault THEN f[projectMdPath]
         ELSE "Error accessing project.md: " \o FsError({}, f, "open", projectMdPath, fault)

\* what the resource handler returns for the {projectPath} of the URI; fault
\* is a failure of the read of an existing project.md
ResourceText(f, projectPath, fault) ==
    IF Malformed(projectPath) THEN MalformedText
    ELSE LET projectMdPath == PathJoin(DecodeURIComponent(projectPath), "project.md") IN
         IF projectMdPath \in DOMAIN f /\ ~fault THEN f[projectMdPath]
         ELSE NotFoundText(projectMdPath)

\* a request for the resource is served between two tool invocations
ReadSnapshot ==
    /\ pc \in {"idle", "done"}
    /\ \E projectPath \in ResourceRequests :
       \E fault \in (IF ~Malformed(projectPath) /\ ProjectMdPath \in DOMAIN files
                     THEN BOOLEAN ELSE {FALSE}) :
         /\ Admit(Fault(fault, "read project.md"))
         /\ faults' = faults \cup Fault(fault, "read project.md")
         /\ resourceText' = ResourceText(files, projectPath, fault)
    /\ UNCHANGED <<dirs, untracked, files, pc, tool, ignoredPaths, codeFiles,
                   fileContents, pending, result, runs, invoked, files0, stages,
                   gitQueried, walked, outOfOrder>>
    /\ UNCHANGED modelVars

(***************************************************************************)
(* Other processes: a collected file is deleted between the traversal and  *)
(* its read.                                                               *)
(***************************************************************************)
EnvDelete(p) ==
    /\ Admit({"delete " \o p})
    /\ pc = "reading"
    /\ \E i \in pending : codeFiles[i] = p
    /\ p \in DOMAIN files
    /\ files' = [q \in DOMAIN files \ {p} |-> files[q]]
    /\ faults' = faults \cup {"delete " \o p}
    /\ UNCHANGED <<dirs, untracked, pc, tool, ignoredPaths, codeFiles, fileContents,
                   pending, result, resourceText, runs, invoked, files0, stages, gitQueried, walked, outOfOrder>>
    /\ UNCHANGED modelVars

Next ==
    \/ \E t \in Tools : Validate(t)
    \/ UpdateGitignore
    \/ ResolveExclusions
    \/ CollectAndSort
    \/ \E i \in pending : ReadFile(i)
    \/ WriteArtifact
    \/ PrepareReadme
    \/ ReadSnapshot
    \/ \E p \in DOMAIN files : EnvDelete(p)

Spec == Init /\ [][Next]_vars

\* the steps of a handler in progress: each is the return of a call of the
\* file system or of git that the handler awaits
HandlerStep ==
    \/ UpdateGitignore
    \/ ResolveExclusions
    \/ CollectAndSort
    \/ \E i \in pending : ReadFile(i)
    \/ WriteArtifact
    \/ PrepareReadme

\* The server when every call a handler awaits returns at last; nothing is
\* assumed of the invocations, of the resource requests or of other processes.
\* the trees these behaviours start from: directories within directories,
\* with and without git, with no eligible file, and a root that is a file
LiveScenarios ==
    { Bare(VendoredProject),
      UnderGit(Plain(SampleProject, SampleGitignore), {ProjectMdPath}),
      Bare(AssetsProject),
      UnderGit(Plain(DocsProject, "dist/\r\n\r\n"), {"/proj/dist/out.js", ProjectMdPath}),
      [dirs |-> {}, files |-> (ProjectPath :> "text"), untracked |-> {}] }

LiveSpec == Started(LiveScenarios) /\ [][Next]_vars /\ WF_vars(HandlerStep)

(***************************************************************************)
(* The gh-models-comparison server: the model catalog and its cache.       *)
(***************************************************************************)
\* "const CACHE_TTL = 600; // 10 minutes in seconds"
CACHE_TTL == 600

\* a number of seconds in thousandths: Date.now() / 1000 is the clock's
\* milliseconds with the point moved three places
Thousandths(seconds) == seconds * 1000

\* the ModelData of a model; of its fields the five that every ModelData has
ModelData(id, displayName, publisher, summary, context_window) ==
    [id |-> id, displayName |-> displayName, publisher |-> publisher,
     summary |-> summary, context_window |-> context_window]

getFallbackModels ==
    << ModelData("gpt-4o", "GPT-4o", "OpenAI",
                 "OpenAI's most advanced multimodal model", 128000),
       ModelData("gpt-4o-mini", "GPT-4o-mini", "OpenAI",
                 "Smaller, efficient version of GPT-4o", 128000),
       ModelData("Phi-3.5-MoE-instruct", "Phi-3.5-MOE Instruct", "Microsoft",
                 "A mixture of experts model from Microsoft", 131072),
       ModelData("Phi-3-mini-128k-instruct", "Phi-3-Mini Instruct 128k", "Microsoft",
                 "Small model with large context window", 131072),
       ModelData("Llama-3.3-70B-Instruct", "Meta Llama 3.3 70B Instruct", "Meta",
                 "Advanced reasoning and instruction following", 128000),
       ModelData("Meta-Llama-3-8B-Instruct", "Meta Llama 3 8B Instruct", "Meta",
                 "Balanced performance and efficiency", 8192),
       ModelData("Mistral-large", "Mistral Large", "Mistral AI",
                 "Mistral's flagship model for complex reasoning", 32768),
       ModelData("Mistral-small", "Mistral Small", "Mistral AI",
                 "Efficient model for low-latency use cases", 32768) >>

\* a || b on strings
OrElse(a, b) == IF a # "" THEN a ELSE b

\* the ModelData built from one entry of the catalog's summaries; a field the
\* entry lacks reads as "" or 0
ModelInfo(model) ==
    LET modelId == OrElse(model.name, "") IN
    ModelData(modelId, OrElse(model.displayName, modelId),
              OrElse(model.publisher, "Unknown"), OrElse(model.summary, ""),
              model.inputContextWindow)

\* the summaries the catalog serves: a full entry and one with a name only
CatalogSummaries ==
    << [name |-> "gpt-4o", displayName |-> "OpenAI GPT-4o", publisher |-> "OpenAI",
        summary |-> "multimodal", inputContextWindow |-> 131072],
       [name |-> "Custom-1", displayName |-> "", publisher |-> "",
        summary |-> "", inputContextWindow |-> 0] >>

\* how a catalog request may end: the post throws (no connection, a status
\* that is no success); the response has no data; the data has no summaries;
\* the data has the summaries
CatalogAnswers == {"throws", "nodata", "nosummaries", "summaries"}

\* fetchAvailableModels with its try block bare: threw says that the
\* promise is rejected
fetchAvailableModelsUncaught(answer) ==
    IF answer \in {"throws", "nodata"}
    THEN [threw |-> TRUE, models |-> <<>>]
    ELSE [threw |-> FALSE,
          models |-> IF answer = "nosummaries" THEN <<>>
                     ELSE [i \in 1..Len(CatalogSummaries) |-> ModelInfo(CatalogSummaries[i])]]

\* fetchAvailableModels() for the answer its catalog request gets
fetchAvailableModels(answer) ==
    IF answer \in {"throws", "nodata"}
    THEN [threw |-> FALSE, models |-> getFallbackModels]
    ELSE [threw |-> FALSE,
          models |-> IF answer = "nosummaries" THEN <<>>
                     ELSE [i \in 1..Len(CatalogSummaries) |-> ModelInfo(CatalogSummaries[i])]]

\* the test of the cache with the bound included
CacheFreshInclusive(cache, timestamp, currentTime) ==
    ~cache.null /\ (currentTime - timestamp) <= Thousandths(CACHE_TTL)

\* "modelsCache !== null && (currentTime - modelsCacheTimestamp) < CACHE_TTL"
CacheFresh(cache, timestamp, currentTime) ==
    ~cache.null /\ (currentTime - timestamp) < Thousandths(CACHE_TTL)

\* getModelsData() is called: it reads the clock and returns the cache, or
\* sends the catalog request of fetchAvailableModels
GetModelsData(c) ==
    /\ calls[c].pc = "idle"
    /\ c > 1 => calls[c - 1].pc # "idle"
    /\ LET currentTime == now IN
       calls' = [calls EXCEPT ![c] =
                   IF CacheFresh(modelsCache, modelsCacheTimestamp, currentTime)
                   THEN [pc |-> "returned", currentTime |-> currentTime,
                         requested |-> FALSE, answer |-> "none",
                         returned |-> modelsCache.value]
                   ELSE [pc |-> "fetching", currentTime |-> currentTime,
                         requested |-> TRUE, answer |-> "none", returned |-> <<>>]]
    /\ UNCHANGED <<now, modelsCache, modelsCacheTimestamp, ticks, populator, comparison>>
    /\ UNCHANGED documenterVars

\* the timestamp left as it is when the list is the fallback list
TimestampOfCatalog(timestamp, currentTime, answer) ==
    IF answer \in {"throws", "nodata"} THEN timestamp ELSE currentTime

\* "modelsCacheTimestamp = currentTime", whatever fetchAvailableModels returned
Timestamp(timestamp, currentTime, answer) == currentTime

\* the catalog request of the call ends, fetchAvailableModels settles and
\* getModelsData goes on after its await
CatalogAnswer(c) ==
    /\ calls[c].pc = "fetching"
    /\ \E answer \in CatalogAnswers :
         LET fetched == fetchAvailableModels(answer) IN
         IF fetched.threw
         THEN /\ calls' = [calls EXCEPT ![c].pc = "failed", ![c].answer = answer]
              /\ UNCHANGED <<modelsCache, modelsCacheTimestamp, populator>>
         ELSE /\ modelsCache' = Cached(fetched.models)
              /\ modelsCacheTimestamp' =
                   Timestamp(modelsCacheTimestamp, calls[c].currentTime, answer)
              /\ populator' = c
              /\ calls' = [calls EXCEPT ![c].pc = "returned", ![c].answer = answer,
                                        ![c].returned = fetched.models]
    /\ UNCHANGED <<now, ticks, comparison>>
    /\ UNCHANGED documenterVars

\* the steps of the clock: a millisecond, and a millisecond less than CACHE_TTL
ClockSteps == {1, Thousandths(CACHE_TTL) - 1}

\* time passes
Tick(step) ==
    /\ ticks < MaxTicks
    /\ ticks' = ticks + 1
    /\ now' = now + step
    /\ UNCHANGED <<modelsCache, modelsCacheTimestamp, calls, populator, comparison>>
    /\ UNCHANGED documenterVars

\* the project documenter, which this server does not touch
DocumenterAside ==
    /\ dirs = {}
    /\ files = <<>>
    /\ untracked = {}
    /\ pc = "idle"
    /\ tool = "generate-project-md"
    /\ ignoredPaths = {}
    /\ codeFiles = <<>>
    /\ fileContents = <<>>
    /\ pending = {}
    /\ result = NoResult
    /\ resourceText = ""
    /\ runs = 0
    /\ invoked = <<>>
    /\ faults = {}
    /\ files0 = <<>>
    /\ stages = <<>>
    /\ gitQueried = FALSE
    /\ walked = <<>>
    /\ outOfOrder = FALSE

ModelsInit == ModelsLoaded /\ DocumenterAside

ModelsNext ==
    \/ \E c \in Calls : GetModelsData(c)
    \/ \E c \in Calls : CatalogAnswer(c)
    \/ \E step \in ClockSteps : Tick(step)

ModelsSpec == ModelsInit /\ [][ModelsNext]_vars

(***************************************************************************)
(* The gh-models-comparison server: the tool compare_models.               *)
(***************************************************************************)
defaultModels == <<"gpt-4o", "Mistral-small", "Phi-3-mini-128k-instruct">>

\* the models argument of the tool: absent, or a list of names
ModelsArguments ==
    { [given |-> FALSE, list |-> <<>>],
      [given |-> TRUE, list |-> <<>>],
      [given |-> TRUE, list |-> <<"no-such-model">>],
      [given |-> TRUE, list |-> <<"Mistral-small", "no-such-model", "gpt-4o">>],
      [given |-> TRUE, list |-> <<"gpt-4o", "gpt-4o">>] }

\* Array.prototype.includes
ArrayIncludes(array, x) == \E i \in 1..Len(array) : array[i] = x

\* how a call of callGitHubModelsAPI may end: TOKEN is empty and it throws
\* before any request; the post throws (a status that is no success); the
\* response has no choices; the response has a completion
ApiAnswers == {"notoken", "status", "nochoices", "completion"}

\* the entry of results for a call that ended so: the fields of the
\* completion, or String(error)
ResultEntry(answer) ==
    CASE answer = "completion" ->
           [content |-> "Hello.", finish_reason |-> "stop", usage |-> 12]
      [] answer = "notoken" ->
           [error |-> "Error: GITHUB_TOKEN environment variable is not set"]
      [] answer = "status" ->
           [error |-> "Error: GitHub Models API error: 429 Too many requests"]
      [] OTHER ->
           [error |-> "TypeError: Cannot read properties of undefined (reading '0')"]

\* the loop left at the first call that fails
IndexAfterLeaving(idx, total, failed) == IF failed THEN total ELSE idx + 1

\* idx after the body of the for loop: the catch clause ends the iteration
\* as the try block does ("idx++"); idx counts from 0
IndexAfter(idx, total, failed) == idx + 1

\* the handler of compare_models after "await getModelsData()", c being its
\* call: modelList, availableModelIds and validModels, and the answer when no
\* model is valid.  TOKEN is read when the module is loaded; nothing but the
\* calls of this handler looks at it, so it is drawn here.
FilterModels(c, models, token) ==
    /\ comparison.pc = "idle"
    /\ calls[c].pc = "returned"
    /\ LET modelList == IF models.given THEN models.list ELSE defaultModels
           availableModels == calls[c].returned
           availableModelIds == [i \in 1..Len(availableModels) |-> availableModels[i].id]
           validModels == SelectSeq(modelList,
                                    LAMBDA modelName : ArrayIncludes(availableModelIds, modelName))
       IN  comparison' =
             [pc |-> IF Len(validModels) = 0 THEN "done" ELSE "calling",
              call |-> c, token |-> token, modelList |-> modelList,
              availableModelIds |-> availableModelIds, validModels |-> validModels,
              idx |-> 0, results |-> <<>>, called |-> <<>>,
              reply |-> IF Len(validModels) = 0
                        THEN [NoReply EXCEPT !.error = "No valid models specified",
                                             !.available_models = availableModelIds]
                        ELSE NoReply]
    /\ UNCHANGED <<now, modelsCache, modelsCacheTimestamp, calls, ticks, populator>>
    /\ UNCHANGED documenterVars

\* one turn of the for loop: callGitHubModelsAPI for validModels[idx] settles
\* and its entry is put in results; after the last turn the handler returns
CallModel ==
    /\ comparison.pc = "calling"
    /\ \E answer \in (IF comparison.token THEN ApiAnswers \ {"notoken"} ELSE {"notoken"}) :
         LET validModels == comparison.validModels
             modelName == validModels[comparison.idx + 1]
             results == (modelName :> ResultEntry(answer)) @@ comparison.results
             idx == IndexAfter(comparison.idx, Len(validModels), answer # "completion")
         IN  comparison' =
               [comparison EXCEPT
                  !.results = results,
                  !.called = Append(@, modelName),
                  !.idx = idx,
                  !.pc = IF idx < Len(validModels) THEN "calling" ELSE "done",
                  !.reply = IF idx < Len(validModels) THEN @
                            ELSE [NoReply EXCEPT !.results = results,
                                                 !.models_compared = validModels]]
    /\ UNCHANGED <<now, modelsCache, modelsCacheTimestamp, calls, ticks, populator>>
    /\ UNCHANGED documenterVars

CompareNext ==
    \/ \E c \in Calls : GetModelsData(c)
    \/ \E c \in Calls : CatalogAnswer(c)
    \/ \E c \in Calls, models \in ModelsArguments, token \in BOOLEAN :
          FilterModels(c, models, token)
    \/ CallModel

\* the server with the tool compare_models invoked, the clock standing
CompareSpec == ModelsInit /\ [][CompareNext]_vars

(***************************************************************************)
(* Properties.                                                             *)
(***************************************************************************)
\* the projectPath names a directory
ValidRoot == ProjectPath \in dirs

\* the root is under version control
UnderVersionControl == GitDirPath \in dirs

\* the handler in progress has returned success
Succeeded == pc = "done" /\ ~result.isError

\* p lies beneath the directory dir
Beneath(p, dir) == StartsWith(p, dir \o "/")

\* the number of lines of a .gitignore text that are the entry project.md
EntryCount(text) ==
    LET lines == Split(text, "\n")
    IN  Cardinality({i \in 1..Len(lines) : Trim(lines[i]) = "project.md"})

\* the indices of the reads that failed
FailedReads == {i \in 1..Len(fileContents) : fileContents[i].error # ""}

\* the number of section headings in a snapshot document
SectionCount(text) ==
    Cardinality({i \in 1..(Len(text) - 4) : SubSeq(text, i, i + 4) = "\n\n## "})

\* C1: no file beneath a default-excluded directory (.git, node_modules) is
\* in the eligible file list, under version control or not, whatever the
\* .gitignore holds.
C1_DefaultDirsExcluded ==
    \A i \in 1..Len(walked) :
       ~Beneath(walked[i], GitDirPath) /\ ~Beneath(walked[i], NodeModulesPath)

\* C2: without a .git directory getGitIgnoredPaths runs no git command and
\* returns exactly {root/.git, root/node_modules} (ignoredPaths holds the
\* returned set and the project.md the caller adds).
C2_NoGitReturnsDefaults ==
    (pc = "walk" /\ ~UnderVersionControl)
       => /\ ~gitQueried
          /\ ignoredPaths \ {ProjectMdPath} = {GitDirPath, NodeModulesPath}

\* C3: after a successful, undisturbed run project.md is an entry of the
\* .gitignore exactly once, and so after every further run.
C3_ListedExactlyOnce ==
    (Succeeded /\ faults = {})
       => /\ GitignorePath \in DOMAIN files
          /\ EntryCount(files[GitignorePath]) = 1

\* C4: the snapshot has no section for root/project.md itself: the file is
\* never collected, no read result is for it, and the written document has
\* no heading for it, in the first run and in the later ones.
C4_NoSelfSection ==
    /\ \A i \in 1..Len(walked) : walked[i] # ProjectMdPath
    /\ \A i \in 1..Len(fileContents) : fileContents[i].relativePath # "project.md"
    /\ ProjectMdPath \in DOMAIN files => ~Includes(files[ProjectMdPath], "\n## project.md\n")

\* C4 witness: a later run has succeeded on a root that is not under version
\* control and held the artifact of an earlier run when it was invoked.
C4_Witness ==
    /\ Succeeded
    /\ runs >= 2
    /\ ~UnderVersionControl
    /\ ProjectMdPath \in DOMAIN files0
    /\ Len(fileContents) >= 2

\* C5: once every read has resolved, the sections stand in ascending
\* code-unit order of their root-relative paths, whatever the order of
\* discovery, and the document written holds them in that order.
C5_SectionsSorted ==
    (pending = {} /\ pc \in {"reading", "readme", "done"})
       => /\ \A i, j \in 1..Len(fileContents) :
                i < j => StrLess(fileContents[i].relativePath, fileContents[j].relativePath)
          /\ (Succeeded /\ Len(fileContents) > 0) =>
                files[ProjectMdPath] = DocumentTitle \o ConcatContents(fileContents)

\* C5 witness: the sample project, discovered in another order, has yielded
\* README.md, config/config.json, src/index.js.
C5_Witness ==
    /\ Succeeded
    /\ walked # codeFiles
    /\ [i \in 1..Len(fileContents) |-> fileContents[i].relativePath]
          = <<"README.md", "config/config.json", "src/index.js">>

\* the artifact is as it was when the handler was invoked
ArtifactUntouched ==
    /\ ProjectMdPath \in DOMAIN files <=> ProjectMdPath \in DOMAIN files0
    /\ ProjectMdPath \in DOMAIN files => files[ProjectMdPath] = files0[ProjectMdPath]

\* every read has resolved
AllResolved == pending = {} /\ pc \in {"reading", "readme", "done"} /\ Len(fileContents) > 0

\* C6: the document has exactly one section per path of the eligible file
\* list, for the reads that failed as for the others, and the count in the
\* success message of generate-project-md is the number of its sections.
C6_OneSectionPerFile ==
    AllResolved
       => /\ Len(fileContents) = Len(codeFiles)
          /\ \A i \in 1..Len(codeFiles) :
                fileContents[i].relativePath = PathRelative(ProjectPath, codeFiles[i])
          /\ \A i, j \in 1..Len(codeFiles) : i # j => codeFiles[i] # codeFiles[j]
          /\ Succeeded =>
                /\ SectionCount(files[ProjectMdPath]) = Len(codeFiles)
                /\ tool = "generate-project-md" =>
                      result.text = "Successfully created/updated project.md at "
                                    \o ProjectMdPath \o " with "
                                    \o ToString(SectionCount(files[ProjectMdPath])) \o " files."

\* C6 witness: generate-project-md has succeeded with several sections, one
\* of them for a read that failed.
C6_Witness ==
    /\ Succeeded
    /\ tool = "generate-project-md"
    /\ Len(fileContents) >= 2
    /\ FailedReads # {}

\* the only disturbances are reads of collected files that failed and
\* collected files that were deleted
OnlyReadsDisturbed ==
    \A label \in faults : \E i \in 1..Len(codeFiles) :
       label \in {"read " \o codeFiles[i], "delete " \o codeFiles[i]}

\* the section the document must hold for the i-th eligible file
ExpectedSection(i) ==
    LET relativePath == PathRelative(ProjectPath, codeFiles[i]) IN
    IF i \in FailedReads
    THEN "## " \o relativePath \o "\n\n*Error reading file: " \o fileContents[i].error \o "*\n\n"
    ELSE "## " \o relativePath \o "\n\n" \o Fence \o getLanguageFromExtension(codeFiles[i])
         \o "\n" \o files[codeFiles[i]] \o "\n" \o Fence \o "\n\n"

\* C7: when exactly one eligible file cannot be read (it was deleted after
\* the traversal, or its read failed) and nothing else goes wrong, the
\* document has the error placeholder for that path and the fenced text of
\* every other file, the artifact is written and the tool reports success.
C7_OneFailureIsolated ==
    (pc = "done" /\ tool = "generate-project-md" /\ AllResolved
        /\ Cardinality(FailedReads) = 1 /\ OnlyReadsDisturbed)
       => /\ ~result.isError
          /\ ProjectMdPath \in DOMAIN files
          /\ files[ProjectMdPath] =
                DocumentTitle
                \o JoinSeq([i \in 1..Len(codeFiles) |-> ExpectedSection(i)], "")

\* C7 witness: of several eligible files one was deleted between the
\* traversal and its read, and the tool has reported success.
C7_Witness ==
    /\ Succeeded
    /\ tool = "generate-project-md"
    /\ Len(fileContents) >= 2
    /\ \E i \in 1..Len(codeFiles) :
          /\ FailedReads = {i}
          /\ codeFiles[i] \in DOMAIN files0
          /\ codeFiles[i] \notin DOMAIN files

\* C8: when the traversal of a valid root yields no eligible file the tool
\* returns the error "No code files found" and project.md is neither
\* created nor modified.
C8_EmptyIsError ==
    (pc = "done" /\ ValidRoot /\ walked = <<>>)
       => /\ result.isError
          /\ StartsWith(result.text, "No code files found in " \o ProjectPath)
          /\ ArtifactUntouched

\* C8 witness: an undisturbed run over a project without eligible files has
\* ended.
C8_Witness ==
    /\ pc = "done"
    /\ ValidRoot
    /\ walked = <<>>
    /\ faults = {}
    /\ \E p \in DOMAIN files : Beneath(p, ProjectPath) /\ p # GitignorePath

\* C9: when projectPath does not exist or is no directory the tool returns
\* an error from the validation: no later stage runs, and neither project.md
\* nor .gitignore is created or modified.
C9_InvalidRootFailsAtOnce ==
    ~ValidRoot
       => /\ pc \in {"idle", "done"}
          /\ files = files0
          /\ GitignorePath \notin DOMAIN files /\ ProjectMdPath \notin DOMAIN files
          /\ ~gitQueried /\ ignoredPaths = {} /\ walked = <<>> /\ fileContents = <<>>
          /\ pc = "done" =>
                /\ result.isError
                /\ stages = <<"validate">>
                /\ StartsWith(result.text,
                              IF ProjectPath \in DOMAIN files
                              THEN "Error: The provided path is not a directory: " \o ProjectPath
                              ELSE "Error: Cannot access directory: " \o ProjectPath)

\* C9 witness: a tool was invoked on a projectPath that names a file.
C9_Witness == pc = "done" /\ ~ValidRoot /\ ProjectPath \in DOMAIN files

\* C10, as claimed: for a well-formed request the resource returns the
\* text of project.md whenever the file exists, and the not-found text when
\* it does not.
C10_TextWheneverPresent ==
    resourceText \notin {"", MalformedText}
       => resourceText = (IF ProjectMdPath \in DOMAIN files THEN files[ProjectMdPath]
                          ELSE NotFoundText(ProjectMdPath))

\* C10, amended: the resource never modifies the file system; for a
\* well-formed request it returns the text of project.md when the file
\* exists and can be read, and the not-found text, as a normal result, when
\* the read fails: no project.md, or one that cannot be read.
C10_ReadSnapshot ==
    /\ [](resourceText \notin {"", MalformedText}
            => \/ ProjectMdPath \in DOMAIN files /\ resourceText = files[ProjectMdPath]
               \/ /\ resourceText = NotFoundText(ProjectMdPath)
                  /\ ProjectMdPath \notin DOMAIN files \/ "read project.md" \in faults)
    /\ [][resourceText' # resourceText => (files' = files /\ dirs' = dirs)]_vars

\* C10 witness: the resource was read on a valid root without an artifact
\* and returned the not-found text.
C10_Witness ==
    /\ ValidRoot
    /\ ProjectMdPath \notin DOMAIN files
    /\ resourceText = NotFoundText(ProjectMdPath)

\* the last two invocations were both of generate-project-md
GeneratedTwice ==
    /\ Len(invoked) >= 2
    /\ invoked[Len(invoked)] = "generate-project-md"
    /\ invoked[Len(invoked) - 1] = "generate-project-md"

\* C11: when generate-project-md has succeeded twice in succession,
\* undisturbed, on a tree changed by nothing but the tool's own writes, the
\* second run has written the very text the first run left in project.md.
C11_Idempotent ==
    (Succeeded /\ faults = {} /\ GeneratedTwice /\ ProjectMdPath \in DOMAIN files0)
       => files[ProjectMdPath] = files0[ProjectMdPath]

\* C11 witness: the second of two generate-project-md runs has succeeded on
\* a root not under version control, with several sections, the files having
\* been discovered in another order than they are written.
C11_Witness ==
    /\ Succeeded
    /\ faults = {}
    /\ GeneratedTwice
    /\ ProjectMdPath \in DOMAIN files0
    /\ ~UnderVersionControl
    /\ Len(fileContents) >= 2
    /\ walked # codeFiles

\* C12, as claimed: the .gitignore that existed when generate-project-md
\* was invoked still exists, and its text then is a prefix of its text now,
\* also when the tool's read of it failed.
C12_GitignorePreserved ==
    (tool = "generate-project-md" /\ GitignorePath \in DOMAIN files0)
       => /\ GitignorePath \in DOMAIN files
          /\ StartsWith(files[GitignorePath], files0[GitignorePath])

\* the text of .gitignore after an undisturbed update, given the files at
\* invocation
UpdatedGitignore(f) ==
    LET gitignoreContent == IF GitignorePath \in DOMAIN f THEN f[GitignorePath] ELSE ""
    IN  IF HasEntry(gitignoreContent) THEN gitignoreContent ELSE WithEntry(gitignoreContent)

\* the write of root/name failed with the error
WriteFailedWith(name, error) == ("write " \o name \o " " \o error) \in faults

\* the write of root/name failed
WriteFailed(name) == \E error \in WriteErrors : WriteFailedWith(name, error)

\* the update of .gitignore was disturbed
GitignoreDisturbed == "read .gitignore" \in faults \/ WriteFailed(".gitignore")

\* C13: when the write of project.md fails, generate-project-md returns an
\* error result whose text carries the error of the write, project.md is as
\* it was, and the .gitignore update made earlier in the run stays in place.
C13_WriteFailureNoRollback ==
    (pc = "done" /\ tool = "generate-project-md" /\ WriteFailed("project.md"))
       => /\ result.isError
          /\ WriteFailedWith("project.md", "EACCES") =>
                /\ result.text = "Error generating project.md: EACCES: permission denied, open '"
                                 \o ProjectMdPath \o "'"
                /\ ArtifactUntouched
          /\ WriteFailedWith("project.md", "ENOSPC") =>
                result.text = "Error generating project.md: ENOSPC: no space left on device, write"
          /\ ~GitignoreDisturbed =>
                /\ GitignorePath \in DOMAIN files
                /\ files[GitignorePath] = UpdatedGitignore(files0)

\* C13 witness: the write of project.md has failed in a run that had
\* appended the entry to an existing .gitignore.
C13_Witness ==
    /\ pc = "done"
    /\ tool = "generate-project-md"
    /\ WriteFailed("project.md")
    /\ GitignorePath \in DOMAIN files0
    /\ files[GitignorePath] # files0[GitignorePath]
    /\ EndsWith(files[GitignorePath], "project.md\n")

\* the stages of a generate-project-md run that reaches the write
FullRun == <<"validate", "gitignore", "resolve", "walk", "assemble", "write">>

\* C14: when the write of .gitignore fails, generate-project-md goes on: it
\* never ends at the update, and, given an eligible file and a project.md
\* that can be written, it runs every later stage, writes the document and
\* reports success.
C14_GitignoreFailureTolerated ==
    (tool = "generate-project-md" /\ WriteFailed(".gitignore"))
       => /\ pc # "gitignore"
          /\ pc = "done" => Len(stages) > 2
          /\ (pc = "done" /\ walked # <<>> /\ ~WriteFailed("project.md"))
                => /\ ~result.isError
                   /\ stages = FullRun
                   /\ ProjectMdPath \in DOMAIN files
                   /\ files[ProjectMdPath] = generateProjectMd(fileContents)
                   /\ result.text = SuccessText

\* C14 witness: generate-project-md has succeeded although its write of
\* .gitignore failed; the file is as it was, without the entry.
C14_Witness ==
    /\ Succeeded
    /\ tool = "generate-project-md"
    /\ WriteFailed(".gitignore")
    /\ GitignorePath \in DOMAIN files
    /\ files[GitignorePath] = files0[GitignorePath]
    /\ ~HasEntry(files[GitignorePath])
    /\ ProjectMdPath \in DOMAIN files

\* the handler in progress has gone through the stage
Passed(stage) == \E i \in 1..Len(stages) : stages[i] = stage

\* C15: when the git command fails, getGitIgnoredPaths still returns, with
\* exactly root/.git and root/node_modules (ignoredPaths holds them and the
\* project.md the caller adds); the tool goes on to the traversal and returns
\* no error on account of the failure.
C15_GitFailureGivesDefaults ==
    "git ls-files" \in faults
       => /\ gitQueried
          /\ pc \in {"walk", "reading", "readme", "done"}
          /\ ignoredPaths \ {ProjectMdPath} = {GitDirPath, NodeModulesPath}
          /\ pc = "done" => Passed("walk")
          /\ (pc = "done" /\ walked # <<>> /\ ~WriteFailed("project.md"))
                => ~result.isError

\* C15 witness: a run has succeeded after the git command failed, on a root
\* where git had more than project.md to report.
C15_Witness ==
    /\ Succeeded
    /\ "git ls-files" \in faults
    /\ GitCandidates \ {ProjectMdPath} # {}

\* the files beneath the root whose extension is not in the allow-list
Unlisted(f) == {p \in DOMAIN f : Beneath(p, ProjectPath) /\ PathExtname(p) \notin codeExtensions}

\* C16: no file whose extension is absent from the allow-list is in the
\* eligible file list, as discovered or as sorted, nor has it a section in
\* the document the run has written.
C16_OnlyListedExtensions ==
    \A p \in Unlisted(files0) :
       /\ \A i \in 1..Len(walked) : walked[i] # p
       /\ \A i \in 1..Len(codeFiles) : codeFiles[i] # p
       /\ \A i \in 1..Len(fileContents) :
             fileContents[i].relativePath # PathRelative(ProjectPath, p)
       /\ (Succeeded /\ Passed("write")) =>
             ~Includes(files[ProjectMdPath], "## " \o PathRelative(ProjectPath, p) \o "\n")

\* C16 witness: a run has succeeded on a tree that holds, next to its
\* eligible files and outside every excluded directory, an image and a file
\* whose extension differs from a listed one by case only.
C16_Witness ==
    /\ Succeeded
    /\ Len(walked) >= 1
    /\ {"/proj/src/logo.png", "/proj/src/Legacy.JS"} \subseteq Unlisted(files0)
    /\ "/proj/src" \notin ignoredPaths

\* the files another process deletes in the step
DeletedInStep == {p \in DOMAIN files : ("delete " \o p) \in faults' \ faults}

\* C17: no step of a generate-project-md invocation creates, modifies or
\* removes a file other than root/project.md and root/.gitignore, nor
\* changes the directories, whether the run ends in success or in an error.
C17_AtMostTwoFiles ==
    [][tool' = "generate-project-md"
          => /\ dirs' = dirs
             /\ \A p \in (DOMAIN files \cup DOMAIN files') \ {ProjectMdPath, GitignorePath} :
                   \/ p \in DeletedInStep
                   \/ /\ p \in DOMAIN files
                      /\ p \in DOMAIN files'
                      /\ files'[p] = files[p]]_vars

\* C17 witness: a generate-project-md run has succeeded after rewriting an
\* existing .gitignore and creating project.md, on a tree with other files.
C17_Witness ==
    /\ Succeeded
    /\ tool = "generate-project-md"
    /\ GitignorePath \in DOMAIN files0
    /\ files[GitignorePath] # files0[GitignorePath]
    /\ ProjectMdPath \notin DOMAIN files0
    /\ ProjectMdPath \in DOMAIN files
    /\ ReadmePath \in DOMAIN files

\* the beginnings of the error messages of generate-project-md, by the stage
\* that failed
StageMessages ==
    [validate |-> {"Error: The provided path is not a directory: ",
                   "Error: Cannot access directory: "},
     walk |-> {"No code files found in "},
     write |-> {"Error generating project.md: "}]

\* C18, as claimed: every error result of generate-project-md is one
\* message that begins as the messages of the stage the run ended in do and
\* names the root path; the message of an empty result is not one of an
\* invalid root.
C18_ErrorsNameStageAndRoot ==
    (pc = "done" /\ tool = "generate-project-md" /\ result.isError)
       => /\ stages[Len(stages)] \in DOMAIN StageMessages
          /\ \E start \in StageMessages[stages[Len(stages)]] : StartsWith(result.text, start)
          /\ Includes(result.text, ProjectPath)
          /\ stages[Len(stages)] = "walk" =>
                \A start \in StageMessages.validate : ~StartsWith(result.text, start)

\* the call has arrived in the step
Arrives(c) == calls[c].pc = "idle" /\ calls'[c].pc # "idle"

\* the call comes back from its catalog request in the step
Resumes(c) == calls[c].pc = "fetching" /\ calls'[c].pc # "fetching"

\* the time, in milliseconds, at which the call that assigned the cache last
\* was made
PopulatedAt == calls[populator].currentTime

\* C19: a call of getModelsData made less than CACHE_TTL = 600 s after the
\* call that populated the cache last returns the cached list and sends no
\* catalog request; a call made 600 s or more after it sends one, and when
\* the request has ended the cache holds the list fetched and, as its
\* timestamp, the time of that call.
C19_CacheTTL ==
    [][\A c \in Calls :
          /\ (Arrives(c) /\ populator # 0) =>
                IF now - PopulatedAt < 600 * 1000
                THEN /\ calls'[c].pc = "returned"
                     /\ calls'[c].returned = modelsCache.value
                     /\ ~calls'[c].requested
                     /\ modelsCache' = modelsCache
                     /\ modelsCacheTimestamp' = modelsCacheTimestamp
                ELSE /\ calls'[c].pc = "fetching"
                     /\ calls'[c].requested
          /\ Resumes(c) =>
                /\ calls'[c].pc = "returned"
                /\ ~modelsCache'.null
                /\ modelsCache'.value = calls'[c].returned
                /\ modelsCacheTimestamp' = calls[c].currentTime]_vars

\* C19 witness: a first call has populated the cache; a call made 599.999 s
\* after it was answered from the cache without a request, and a call made
\* 600 s after it has sent a catalog request.
C19_Witness ==
    \E first, early, late \in Calls :
       /\ populator = first
       /\ calls[first].pc = "returned" /\ calls[first].requested
       /\ calls[early].pc = "returned" /\ ~calls[early].requested
       /\ calls[early].currentTime - calls[first].currentTime = 599999
       /\ calls[early].returned = calls[first].returned
       /\ calls[late].requested
       /\ calls[late].currentTime - calls[first].currentTime = 600000

\* the ids of the fixed fallback list
FallbackIds ==
    <<"gpt-4o", "gpt-4o-mini", "Phi-3.5-MoE-instruct", "Phi-3-mini-128k-instruct",
      "Llama-3.3-70B-Instruct", "Meta-Llama-3-8B-Instruct", "Mistral-large",
      "Mistral-small">>

\* C20: no call of getModelsData fails; a call whose catalog request threw
\* or brought no data returns the fixed fallback list, which is not empty,
\* and the cache, once assigned, holds a list.
C20_FallbackNeverFails ==
    /\ \A c \in Calls :
          /\ calls[c].pc \in {"idle", "fetching", "returned"}
          /\ (calls[c].pc = "returned" /\ calls[c].answer \in {"throws", "nodata"}) =>
                /\ Len(calls[c].returned) = 8
                /\ [i \in 1..8 |-> calls[c].returned[i].id] = FallbackIds
                /\ calls[c].returned = getFallbackModels
    /\ populator # 0 => ~modelsCache.null

\* C20 witness: one call's catalog request has thrown and another's has
\* brought no data, and both calls have returned.
C20_Witness ==
    \E c, d \in Calls :
       /\ calls[c].pc = "returned" /\ calls[c].answer = "throws"
       /\ calls[d].pc = "returned" /\ calls[d].answer = "nodata"
       /\ calls[c].returned # <<>>

\* the eligible files that lie in the root directory itself and are none of
\* the excluded paths
EligibleAtRoot ==
    {p \in DOMAIN files0 : /\ Dirname(p) = ProjectPath
                           /\ isCodeFile(Basename(p))
                           /\ p \notin ignoredPaths}

\* C21, as claimed: on a root under version control no line of .gitignore
\* that is blank, whitespace only or a comment puts the root path into the
\* exclusion set, and an undisturbed run over a root that holds an eligible
\* file finds it.
C21_BlankLinesAddNothing ==
    (UnderVersionControl /\ Passed("resolve"))
       => /\ ProjectPath \notin ignoredPaths
          /\ (pc = "done" /\ faults = {} /\ EligibleAtRoot # {}) => walked # <<>>

\* the directories whose listing failed in the walk
Unlistable == IF faults = {} THEN {} ELSE {d \in dirs : ("readdir " \o d) \in faults}

\* the eligible file list of a walk in which every listing succeeds, for
\* the files as they were at the invocation (of the files written since,
\* .gitignore is not eligible and project.md is excluded)
WalkUndisturbed(rev) ==
    collectCodeFiles(dirs, files0, ProjectPath, ignoredPaths, <<>>, rev, {})

\* the walk has ended and no read has settled since: the list it left is
\* looked at here, and no later step changes it
WalkJustEnded == Passed("walk") /\ pending = DOMAIN walked

\* C22: when the listing of a directory fails, the eligible file list is
\* the list of the undisturbed walk without the files in and beneath that
\* directory, in the same order; the failure is not reported: the run
\* succeeds when a file is left and project.md can be written, and reports
\* the empty result when none is left.
C22_ListingFailureSkipsSubtree ==
    \A bad \in Unlistable :
       Passed("walk")
          => /\ WalkJustEnded
                   => \E rev \in BOOLEAN :
                         walked = SelectSeq(WalkUndisturbed(rev),
                                            LAMBDA p : ~Beneath(p, bad))
             /\ (pc = "done" /\ walked # <<>> /\ ~WriteFailed("project.md"))
                   => ~result.isError
             /\ (pc = "done" /\ walked = <<>>)
                   => StartsWith(result.text, "No code files found in ")

\* C22 witness: the listing of src failed in a walk of the sample project;
\* the files of config and of the root were collected and the run succeeded.
C22_Witness ==
    /\ Succeeded
    /\ Unlistable = {"/proj/src"}
    /\ "/proj/src/index.js" \in DOMAIN files0
    /\ Len(walked) = 2
    /\ \E i \in 1..2 : walked[i] = "/proj/config/config.json"

\* s is a beginning of t
IsPrefix(s, t) == Len(s) <= Len(t) /\ SubSeq(t, 1, Len(s)) = s

\* the stages of a run that found no eligible file
EmptyRun == <<"validate", "gitignore", "resolve", "walk">>

\* C23, as claimed: the .gitignore update belongs to the write stage, after
\* the exclusions are resolved, the tree is walked and the document is
\* assembled.
C23_UpdateInWriteStage ==
    tool = "generate-project-md"
       => \A i, j \in 1..Len(stages) :
             (i < j /\ stages[i] = "gitignore")
                => stages[j] \notin {"resolve", "walk", "assemble"}

\* C23, amended: a generate-project-md invocation goes through validate,
\* .gitignore update, resolve exclusions, walk, assemble, write of
\* project.md in this order, each at most once and none again after a
\* failure; it has no result before it ends and ends with one result:
\* success after the write, or an error at the validation, the walk or the
\* write.
C23_StageOrder ==
    /\ [](tool = "generate-project-md"
            => /\ IsPrefix(stages, FullRun) \/ stages = EmptyRun
               /\ pc \notin {"idle", "done"} => result = NoResult
               /\ (pc = "done" /\ runs > 0) =>
                     /\ result.text # ""
                     /\ stages \in {<<"validate">>, EmptyRun, FullRun}
                     /\ ~result.isError <=> (stages = FullRun /\ ~WriteFailed("project.md")))
    /\ [][(tool' = "generate-project-md" /\ stages' # stages)
             => \/ stages' = <<"validate">> /\ runs' = runs + 1
                \/ Len(stages') > Len(stages) /\ IsPrefix(stages, stages')]_vars
    /\ [][(pc = "done" /\ pc' # "done") => runs' = runs + 1]_vars

\* C23 witness: a generate-project-md run has gone through all its stages
\* and succeeded, having appended the entry to .gitignore on its way.
C23_Witness ==
    /\ Succeeded
    /\ tool = "generate-project-md"
    /\ stages = FullRun
    /\ GitignorePath \in DOMAIN files0
    /\ files[GitignorePath] # files0[GitignorePath]
    /\ gitQueried

\* what the read of the i-th file of codeFiles yields when the files are
\* read one at a time in sorted order and the read ends as it ended here
SequentialRead(i) ==
    IF fileContents[i].error = ""
    THEN FileContent(ProjectPath, codeFiles[i], TRUE, files0[codeFiles[i]])
    ELSE FileContent(ProjectPath, codeFiles[i], FALSE, fileContents[i].error)

\* C24: in whatever order the reads of generateProjectMd resolve, and
\* whichever of them fail, the result of each read stands at the index of its
\* file in the sorted list, project.md is not written while a read is
\* pending, and the document written is the one that reading the files one
\* at a time in sorted order yields.
C24_ReadOrderIrrelevant ==
    (pc \in {"reading", "readme", "done"} /\ Len(fileContents) > 0)
       => /\ \A i \in (1..Len(fileContents)) \ pending : fileContents[i] = SequentialRead(i)
          /\ pending # {} => ArtifactUntouched /\ ~Passed("write")
          /\ (Passed("write") /\ ~WriteFailed("project.md")) =>
                files[ProjectMdPath] =
                   DocumentTitle
                   \o JoinSeq([i \in 1..Len(codeFiles) |-> SequentialRead(i).content], "")

\* C24 witness: of three reads a later one resolved before an earlier one
\* and one failed, and the document has been written.
C24_Witness ==
    /\ Succeeded
    /\ outOfOrder
    /\ Len(fileContents) = 3
    /\ Cardinality(FailedReads) = 1

\* a handler is in progress
Running == pc \notin {"idle", "done"}

\* C25: when every call it awaits returns, a generate-project-md invocation
\* ends, with one result, success or error; the walk lists no directory
\* twice, so that no file is collected twice.
C25_Terminates ==
    /\ (Running /\ tool = "generate-project-md")
          ~> (pc = "done" /\ tool = "generate-project-md" /\ result.text # "")
    /\ [](\A i, j \in 1..Len(walked) : i # j => walked[i] # walked[j])

\* C25 witness: a generate-project-md run over a tree with directories
\* within directories has ended.
C25_Witness ==
    /\ pc = "done"
    /\ tool = "generate-project-md"
    /\ Passed("walk")
    /\ "/proj/node_modules/dep" \in dirs
    /\ Len(walked) >= 2

\* the elements of an array
Elements(array) == {array[i] : i \in 1..Len(array)}

\* the requested models that are in the list of available models, in the
\* order of the request
ValidRequested ==
    SelectSeq(comparison.modelList,
              LAMBDA m : \E i \in 1..Len(calls[comparison.call].returned) :
                            calls[comparison.call].returned[i].id = m)

\* an entry of results holds a completion, or an error
IsEntry(entry) == DOMAIN entry \in {{"content", "finish_reason", "usage"}, {"error"}}

\* C26: compare_models calls the completions API for the requested models
\* that are available, and for no other, one call per such model in the
\* order of the list; when none is available it answers "No valid models
\* specified" and has made no call; otherwise every valid model was called,
\* whatever calls failed before, and has its completion or an error entry
\* in the result.
C26_CompareModels ==
    comparison.pc # "idle"
       => /\ IsPrefix(comparison.called, ValidRequested)
          /\ Elements(comparison.called)
                \subseteq Elements(comparison.modelList)
                          \cap Elements(comparison.availableModelIds)
          /\ (comparison.pc = "done" /\ ValidRequested = <<>>)
                => /\ comparison.reply.error = "No valid models specified"
                   /\ comparison.called = <<>>
          /\ (comparison.pc = "done" /\ ValidRequested # <<>>)
                => /\ comparison.called = ValidRequested
                   /\ comparison.reply.error = ""
                   /\ comparison.reply.models_compared = ValidRequested
                   /\ \A m \in Elements(ValidRequested) :
                         /\ m \in DOMAIN comparison.reply.results
                         /\ IsEntry(comparison.reply.results[m])
          /\ comparison.pc = "calling" => comparison.reply = NoReply

\* C26 witness: of three requested models one is not available; the call for
\* the first valid model failed, the call for the second gave a completion.
C26_Witness ==
    /\ comparison.pc = "done"
    /\ comparison.modelList = <<"Mistral-small", "no-such-model", "gpt-4o">>
    /\ comparison.called = <<"Mistral-small", "gpt-4o">>
    /\ "error" \in DOMAIN comparison.reply.results["Mistral-small"]
    /\ "content" \in DOMAIN comparison.reply.results["gpt-4o"]

\* the catalog request of the call failed
RequestFailed(c) == calls[c].answer \in {"throws", "nodata"}

\* the cache holds the fallback list, stored by a call whose request failed
FallbackCached == populator # 0 /\ RequestFailed(populator)

\* C27: when the catalog request of a call fails, the fallback list is
\* stored in the cache with the call's reading of the clock as timestamp,
\* as the list of a request that succeeds is; a call made while less than
\* CACHE_TTL = 600 s have passed since that timestamp sends no catalog
\* request and returns the fallback list.
C27_FallbackCached ==
    [][\A c \in Calls :
          /\ Resumes(c) =>
                /\ calls'[c].pc = "returned"
                /\ modelsCache' = Cached(calls'[c].returned)
                /\ modelsCacheTimestamp' = calls[c].currentTime
                /\ RequestFailed(c)' => calls'[c].returned = getFallbackModels
          /\ (Arrives(c) /\ FallbackCached
                /\ now - modelsCacheTimestamp < 600 * 1000) =>
                /\ ~calls'[c].requested
                /\ calls'[c].pc = "returned"
                /\ calls'[c].returned = getFallbackModels
                /\ modelsCache' = modelsCache
                /\ modelsCacheTimestamp' = modelsCacheTimestamp]_vars

\* C27 witness: the request of a first call failed and the fallback list was
\* cached; a call made 599.999 s later was answered with it and sent no
\* request; the call made 600 s later sent one, and the catalog answered.
C27_Witness ==
    \E first, early, late \in Calls :
       /\ calls[first].pc = "returned" /\ RequestFailed(first)
       /\ calls[early].pc = "returned" /\ ~calls[early].requested
       /\ calls[early].currentTime - calls[first].currentTime = 599999
       /\ calls[early].returned = getFallbackModels
       /\ calls[late].pc = "returned" /\ calls[late].requested
       /\ calls[late].answer = "summaries"
       /\ calls[late].currentTime - calls[first].currentTime = 600000

====
